---------------------------- MODULE Spec2Model ----------------------------
(***************************************************************************)
(* Recursion-tree / DP-graph visualisers for 0/1 Knapsack and Target Sum.  *)
(* Three Streamlit scripts are modelled: 01knapsack.py (DFS recursion      *)
(* tree), 01knapsackdp.py (bottom-up table and derivation graph) and       *)
(* FindTargetSumWays.py (DFS recursion tree with highlighted goal paths).  *)
(* A behaviour is one script: the text inputs the user typed, then the     *)
(* button handler run to completion.                                       *)
(*                                                                         *)
(* Python lists are 0-based; a list l is the sequence with l[i] at i+1.    *)
(* Python dicts are functions; a dict update d[k] = x is (k :> x) @@ d.    *)
(* Python ints are unbounded; an int is its sign and its decimal digits.   *)
(* Python's call stack is explicit: the dfs calls that are executing.      *)
(* An exception that nothing catches ends the handler; pc names it.        *)
(***************************************************************************)
EXTENDS Integers, Sequences, FiniteSets, TLC

VARIABLES
    app,                \* which script this behaviour runs
    weight_str,         \* text input "weights": the characters typed
    value_str,          \* text input "values": the characters typed
    W,                  \* number input "capacity"
    nums_str,           \* text input "nums": the characters typed
    target,             \* number input "target"
    pc,                 \* where the button handler ended ("idle" before the click)
    weight_list,        \* knapsack handlers: the parsed weights (<<>> while unassigned)
    value_list,         \* knapsack handlers: the parsed values (<<>> while unassigned)
    nums_list,          \* Target Sum handler: the parsed nums (<<>> while unassigned)
    trace,              \* DFS scripts: list of unique node ids in visiting order
    parent_map,         \* DFS scripts: child id -> <<parent id, edge label>>
    calls,              \* DFS scripts: the arguments of every dfs call, in call order
    valid_leaves,       \* Target Sum: list of goal leaf ids
    ways_count,         \* Target Sum: number of goal leaves counted
    highlighted_nodes,  \* Target Sum: set of ids on a root-to-goal path
    dp,                 \* DP script: the table dp[i][w]
    G                   \* the graph handed to the renderer: nodes and labelled edges

vars == <<app, weight_str, value_str, W, nums_str, target, pc, weight_list, value_list,
          nums_list, trace, parent_map, calls, valid_leaves, ways_count,
          highlighted_nodes, dp, G>>

---------------------------------------------------------------------------
(* Bounds of the model *)

MaxN == 2          \* longest list drawn for weights / values / nums
MaxWeight == 1     \* weights are drawn from -1 .. MaxWeight
MaxValue == 1      \* values are drawn from -1 .. MaxValue
MaxCap == 1        \* capacities are drawn from -1 .. MaxCap
MaxNum == 2        \* nums are drawn from -1 .. MaxNum
MaxTarget == 2     \* targets are drawn from -MaxTarget .. MaxTarget

WeightRange == -1 .. MaxWeight
ValueRange  == -1 .. MaxValue
CapRange    == -1 .. MaxCap
NumRange    == -1 .. MaxNum
TargetRange == (0 - MaxTarget) .. MaxTarget

None == "None"
EmptyMap == [x \in {} |-> x]


\* The exceptions the scripts can end in without catching them.
RecursionError == "RecursionError"
ValueError == "ValueError"
IndexError == "IndexError"

---------------------------------------------------------------------------
(* Python int: unbounded integers *)

\* sys.int_info.default_max_str_digits: converting between int and str raises
\* ValueError when more digits are involved.
MaxStrDigits == 4300

\* sys.getrecursionlimit(): the call that would put this many frames on the
\* stack raises RecursionError.
RecursionLimit == 1000

RECURSIVE NatDigits(_)
\* The decimal digits of a natural number, most significant first.
NatDigits(n) == IF n < 10 THEN <<n>> ELSE Append(NatDigits(n \div 10), n % 10)

\* A Python int is the record of its sign and of the decimal digits of its
\* magnitude, most significant first and without a leading zero; zero has
\* the digits <<0>> and is not negative. PyInt(k) is the int with the value k.
PyInt(k) == [neg |-> k < 0, digits |-> NatDigits(IF k < 0 THEN 0 - k ELSE k)]

\* Leading zeros removed.
Trim(d) ==
    IF \A k \in 1 .. Len(d) : d[k] = 0 THEN <<0>>
    ELSE SubSeq(d, CHOOSE k \in 1 .. Len(d) : d[k] # 0 /\ \A j \in 1 .. k - 1 : d[j] = 0,
                Len(d))

\* d with zeros in front, n digits long.
Pad(d, n) == [k \in 1 .. n |-> IF k <= n - Len(d) THEN 0 ELSE d[k - (n - Len(d))]]

RECURSIVE AddDigits(_, _, _)
\* School addition of two digit rows of equal length and a carry, by halves:
\* the right half first, its carry into the left half.
AddDigits(a, b, carry) ==
    IF Len(a) = 1
    THEN LET s == a[1] + b[1] + carry
         IN  [digits |-> <<s % 10>>, carry |-> s \div 10]
    ELSE LET m == Len(a) \div 2
             low == AddDigits(SubSeq(a, m + 1, Len(a)), SubSeq(b, m + 1, Len(b)), carry)
             high(c) == AddDigits(SubSeq(a, 1, m), SubSeq(b, 1, m), c)
             glue(h) == [digits |-> h.digits \o low.digits, carry |-> h.carry]
         IN  IF low.carry = 0 THEN glue(high(0)) ELSE glue(high(1))

RECURSIVE SubDigits(_, _, _)
\* School subtraction a - b - borrow of two digit rows of equal length.
SubDigits(a, b, borrow) ==
    IF Len(a) = 1
    THEN LET s == a[1] - b[1] - borrow
         IN  IF s < 0 THEN [digits |-> <<s + 10>>, borrow |-> 1]
             ELSE [digits |-> <<s>>, borrow |-> 0]
    ELSE LET m == Len(a) \div 2
             low == SubDigits(SubSeq(a, m + 1, Len(a)), SubSeq(b, m + 1, Len(b)), borrow)
             high(c) == SubDigits(SubSeq(a, 1, m), SubSeq(b, 1, m), c)
             glue(h) == [digits |-> h.digits \o low.digits, borrow |-> h.borrow]
         IN  IF low.borrow = 0 THEN glue(high(0)) ELSE glue(high(1))

\* a < b for two magnitudes without leading zeros.
MagLess(a, b) ==
    \/ Len(a) < Len(b)
    \/ /\ Len(a) = Len(b)
       /\ \E k \in 1 .. Len(a) : a[k] < b[k] /\ \A j \in 1 .. k - 1 : a[j] = b[j]

MagAdd(a, b) ==
    LET n == IF Len(a) > Len(b) THEN Len(a) ELSE Len(b)
        r == AddDigits(Pad(a, n), Pad(b, n), 0)
    IN  IF r.carry = 1 THEN <<1>> \o r.digits ELSE r.digits

\* a - b for magnitudes with b <= a.
MagSub(a, b) == Trim(SubDigits(a, Pad(b, Len(a)), 0).digits)

\* -a
Neg(a) == IF a.digits = <<0>> THEN a ELSE [neg |-> ~a.neg, digits |-> a.digits]

\* a + b
Add(a, b) ==
    IF a.neg = b.neg THEN [neg |-> a.neg, digits |-> MagAdd(a.digits, b.digits)]
    ELSE IF MagLess(a.digits, b.digits)
    THEN [neg |-> b.neg, digits |-> MagSub(b.digits, a.digits)]
    ELSE LET m == MagSub(a.digits, b.digits)
         IN  [neg |-> a.neg /\ m # <<0>>, digits |-> m]

\* a - b
Sub(a, b) == Add(a, Neg(b))

\* a < b
Less(a, b) ==
    IF a.neg # b.neg THEN a.neg
    ELSE IF a.neg THEN MagLess(b.digits, a.digits)
    ELSE MagLess(a.digits, b.digits)

\* a >= b
Ge(a, b) == ~Less(a, b)

\* a > b
Gt(a, b) == Less(b, a)

RECURSIVE DigitString(_)
\* The digits written out, by halves.
DigitString(d) ==
    IF Len(d) = 1 THEN ToString(d[1])
    ELSE LET m == Len(d) \div 2
         IN  DigitString(SubSeq(d, 1, m)) \o DigitString(SubSeq(d, m + 1, Len(d)))

\* f"{a}" / str(a): the decimal text of an int, or ValueError raised when it
\* has more than MaxStrDigits digits.
Str(a) ==
    IF Len(a.digits) > MaxStrDigits THEN ValueError
    ELSE IF a.neg THEN "-" \o DigitString(a.digits)
    ELSE DigitString(a.digits)

RECURSIVE Join(_)
Join(pieces) == IF Len(pieces) = 0 THEN "" ELSE pieces[1] \o Join(Tail(pieces))

\* An f-string of the given pieces: ValueError when formatting one of them
\* raised it, else the pieces joined.
Format(pieces) ==
    IF \E k \in 1 .. Len(pieces) : pieces[k] = ValueError THEN ValueError
    ELSE Join(pieces)

---------------------------------------------------------------------------
(* Text input -> integer list *)

\* A text is the sequence of its characters, each a Unicode code point (the
\* number Python's ord gives).
\* ord of the ASCII characters the texts below are written with.
Ord ==
    ("\t" :> 9) @@ ("\n" :> 10) @@ ("\r" :> 13) @@ (" " :> 32) @@ ("+" :> 43) @@
    ("," :> 44) @@ ("-" :> 45) @@ ("." :> 46) @@ ("0" :> 48) @@ ("1" :> 49) @@
    ("2" :> 50) @@ ("3" :> 51) @@ ("4" :> 52) @@ ("5" :> 53) @@ ("6" :> 54) @@
    ("7" :> 55) @@ ("8" :> 56) @@ ("9" :> 57) @@ ("_" :> 95) @@ ("x" :> 120)

\* The text written as a sequence of one-character strings.
Code(chars) == [k \in 1 .. Len(chars) |-> Ord[chars[k]]]

\* The characters str.strip() removes: the code points with str.isspace().
\* \t \n \v \f \r, FS GS RS US, space, NEL, NBSP, OGHAM SPACE MARK, EN QUAD ..
\* HAIR SPACE, LINE / PARAGRAPH SEPARATOR, NNBSP, MMSP, IDEOGRAPHIC SPACE.
Whitespace ==
    (9 .. 13) \cup (28 .. 32) \cup {133, 160, 5760} \cup (8192 .. 8202) \cup
    {8232, 8233, 8239, 8287, 12288}

\* The code point of digit zero in every script with decimal digits (Unicode
\* category Nd); the digits 0 .. 9 of a script are the ten code points from
\* its zero on. ASCII, Arabic-Indic, Extended Arabic-Indic, NKo, Devanagari,
\* ..., Fullwidth, ..., Mathematical, ..., Segmented.
DigitZeros ==
    {48, 1632, 1776, 1984, 2406, 2534, 2662, 2790, 2918, 3046, 3174, 3302, 3430,
     3558, 3664, 3792, 3872, 4160, 4240, 6112, 6160, 6470, 6608, 6784, 6800,
     6992, 7088, 7232, 7248, 42528, 43216, 43264, 43472, 43504, 43600, 44016,
     65296, 66720, 68912, 69734, 69872, 69942, 70096, 70384, 70736, 70864,
     71248, 71360, 71472, 71904, 72016, 72784, 73040, 73120, 92768, 92864,
     93008, 120782, 120792, 120802, 120812, 120822, 123200, 123632, 125264,
     130032}

\* The characters int() reads as a decimal digit.
IsDigit(c) == \E z \in DigitZeros : c \in z .. z + 9

\* The digit a character stands for.
DigitValue(c) == c - (CHOOSE z \in DigitZeros : c \in z .. z + 9)

RECURSIVE NatChars(_)
\* The decimal digits of a natural number.
NatChars(n) ==
    IF n < 10 THEN <<Ord["0"] + n>>
    ELSE NatChars(n \div 10) \o <<Ord["0"] + (n % 10)>>

\* The characters of str(k).
IntChars(k) == IF k < 0 THEN <<Ord["-"]>> \o NatChars(0 - k) ELSE NatChars(k)

RECURSIVE Text(_)
\* What the user types for a list of integers: the numbers, comma-separated.
Text(list) ==
    IF Len(list) = 0 THEN <<>>
    ELSE IF Len(list) = 1 THEN IntChars(list[1])
    ELSE IntChars(list[1]) \o <<Ord[","]>> \o Text(Tail(list))

RECURSIVE Split(_)
\* s.split(","): the pieces between the commas; never an empty list. The text
\* is cut at the comma next to its middle and each side is split in turn.
Split(s) ==
    LET mid == Len(s) \div 2 + 1
        IsComma(k) == s[k] = Ord[","]
        after == {k \in mid .. Len(s) : IsComma(k) /\ \A j \in mid .. k - 1 : ~IsComma(j)}
        before == {k \in 1 .. mid - 1 : IsComma(k) /\ \A j \in k + 1 .. mid - 1 : ~IsComma(j)}
    IN  IF after \cup before = {}
        THEN <<s>>
        ELSE LET p == CHOOSE k \in after \cup before : after # {} => k \in after
             IN  Split(SubSeq(s, 1, p - 1)) \o Split(SubSeq(s, p + 1, Len(s)))

\* x.strip(): leading and trailing whitespace removed.
Strip(t) ==
    IF \A k \in 1 .. Len(t) : t[k] \in Whitespace THEN <<>>
    ELSE LET first == CHOOSE k \in 1 .. Len(t) :
                          t[k] \notin Whitespace /\ \A j \in 1 .. k - 1 : t[j] \in Whitespace
             last  == CHOOSE k \in 1 .. Len(t) :
                          t[k] \notin Whitespace /\ \A j \in k + 1 .. Len(t) : t[j] \in Whitespace
         IN  SubSeq(t, first, last)

\* How many digits a digit group has, its underscores not counted.
DigitCount(d) == Cardinality({k \in 1 .. Len(d) : IsDigit(d[k])})

\* The digits part of an integer literal: digits, single underscores allowed
\* between two digits, no more than MaxStrDigits digits.
IsDigitGroup(d) ==
    /\ d # <<>>
    /\ \A k \in 1 .. Len(d) : IsDigit(d[k]) \/ d[k] = Ord["_"]
    /\ IsDigit(d[1]) /\ IsDigit(d[Len(d)])
    /\ \A k \in 1 .. Len(d) - 1 : ~(d[k] = Ord["_"] /\ d[k + 1] = Ord["_"])
    /\ DigitCount(d) <= MaxStrDigits

\* The literal without its sign.
Unsigned(t) == IF t # <<>> /\ t[1] \in {Ord["+"], Ord["-"]} THEN Tail(t) ELSE t

\* int(x.strip()) succeeds: optional sign, then a digit group.
IsIntText(t) == IsDigitGroup(Unsigned(Strip(t)))

\* int(x.strip()): the digits of the literal, underscores skipped, leading
\* zeros dropped; "-0" is 0.
IntOf(t) ==
    LET x == Strip(t)
        ds == SelectSeq(Unsigned(x), IsDigit)
        digits == Trim([k \in 1 .. Len(ds) |-> DigitValue(ds[k])])
    IN  [neg |-> x[1] = Ord["-"] /\ digits # <<0>>, digits |-> digits]

\* [int(x.strip()) for x in s.split(",") if x.strip()]: tokens blank after
\* strip are dropped, any other token must read as an integer or ValueError is
\* raised and the list is never bound.
ParseIntList(text) ==
    LET kept == SelectSeq(Split(text), LAMBDA t : Strip(t) # <<>>)
    IN  IF \A k \in 1 .. Len(kept) : IsIntText(kept[k])
        THEN [ok |-> TRUE, list |-> [k \in 1 .. Len(kept) |-> IntOf(kept[k])]]
        ELSE [ok |-> FALSE, list |-> <<>>]


---------------------------------------------------------------------------
(* The dfs calls of run_knapsack_dfs and run_target_sum_dfs *)

\* The state of one enumerator run: the locals of run_*_dfs that its dfs
\* closure updates, the arguments of the dfs calls entered so far, the
\* exception that is propagating ("ok" while there is none), and the dfs
\* calls that are executing, outermost first. A call on the stack has its
\* arguments, the id it recorded (None before step 2) and `at`: 0 while it
\* has not started, k while it waits for its k-th recursive call to return.
EmptyRun ==
    [status |-> "ok", node_counter |-> EmptyMap, trace |-> <<>>,
     parent_map |-> EmptyMap, calls |-> <<>>, valid_leaves |-> <<>>, ways_count |-> 0,
     stack |-> <<>>]

\* The run after the exception e was raised: it propagates through every
\* enclosing dfs call and out of run_*_dfs, nothing catches it.
Raise(st, e) == [st EXCEPT !.status = e, !.stack = <<>>]

\* A call that would be frame number `frame` of the stack cannot be made.
StackExhausted(frame) == frame >= RecursionLimit

\* The innermost call.
Top(st) == st.stack[Len(st.stack)]

\* dfs(args..., parent_id, edge_label) called from run_*_dfs (frame number
\* `base`) or from a dfs call above it: the arguments are evaluated first (the
\* f-string of the edge label may raise), then the frame is pushed if the
\* stack has room for it.
Call(st, base, args, parent_id, edge_label) ==
    IF edge_label = ValueError
    THEN Raise(st, ValueError)
    ELSE IF StackExhausted(base + Len(st.stack) + 1)
    THEN Raise(st, RecursionError)
    ELSE [st EXCEPT !.stack = Append(@, [args |-> args, parent_id |-> parent_id,
                                         edge_label |-> edge_label,
                                         unique_node_id |-> None, at |-> 0])]

\* The innermost call returns.
Return(st) == [st EXCEPT !.stack = SubSeq(@, 1, Len(@) - 1)]

\* The innermost call is about to make its k-th recursive call.
Suspend(st, unique_node_id, k) ==
    [st EXCEPT !.stack[Len(st.stack)].unique_node_id = unique_node_id,
               !.stack[Len(st.stack)].at = k]

\* A dfs call was entered with the arguments args.
Enter(st, args) == [st EXCEPT !.calls = Append(@, args)]

\* node_counter after "if base_label not in node_counter: ... = 0; ... += 1"
BumpCounter(node_counter, base_label) ==
    IF base_label \in DOMAIN node_counter
    THEN (base_label :> node_counter[base_label] + 1) @@ node_counter
    ELSE (base_label :> 1) @@ node_counter

\* Variant: the occurrence counter is left out of the id.
UniqueNodeId_NoCounter(base_label, count) == base_label

\* unique_node_id = f"{base_label}_{node_counter[base_label]}"
UniqueNodeId(base_label, count) == base_label \o "_" \o Str(PyInt(count))

\* Steps 2-4 of dfs: bump the counter, append to the trace, record the parent.
RecordNode(st, base_label, parent_id, edge_label) ==
    LET counter == BumpCounter(st.node_counter, base_label)
        unique_node_id == UniqueNodeId(base_label, counter[base_label])
    IN  [st EXCEPT !.node_counter = counter,
                   !.trace = Append(@, unique_node_id),
                   !.parent_map = IF parent_id # None
                                  THEN (unique_node_id :> <<parent_id, edge_label>>) @@ @
                                  ELSE @]

\* The id the call just recorded.
LastId(st) == st.trace[Len(st.trace)]

---------------------------------------------------------------------------
(* 01knapsack.py: run_knapsack_dfs *)

\* base_label = f"dp({i},{w},{v})"
KnapsackBaseLabel(i, w, v) ==
    Format(<<"dp(", Str(PyInt(i)), ",", Str(w), ",", Str(v), ")">>)

\* Variant: the capacity guard is missing.
PickAllowed_Always(w, wt) == TRUE

\* Variant: the capacity guard is strict.
PickAllowed_Strict(w, wt) == Gt(w, wt)

\* "if w >= weight[i]": the capacity guard of the pick branch.
PickAllowed(w, wt) == Ge(w, wt)

\* Variant: the pick branch is explored before the skip branch.
KnapsackBranches_PickFirst(weight, value, i, w, v) ==
    LET skip == [args |-> [i |-> i + 1, w |-> w, v |-> v],
                 label |-> Format(<<"Skip item ", Str(PyInt(i))>>)]
        pick == [args |-> [i |-> i + 1, w |-> Sub(w, weight[i + 1]),
                           v |-> Add(v, value[i + 1])],
                 label |-> Format(<<"Pick item ", Str(PyInt(i))>>)]
    IN  IF Ge(w, weight[i + 1]) THEN <<pick, skip>> ELSE <<skip>>

\* Steps 6-7 of dfs: the recursive calls of a non-terminal node, in call order,
\* each with its arguments and its edge label.
KnapsackBranches(weight, value, i, w, v) ==
    LET skip == [args |-> [i |-> i + 1, w |-> w, v |-> v],
                 label |-> Format(<<"Skip item ", Str(PyInt(i))>>)]
        pick == [args |-> [i |-> i + 1, w |-> Sub(w, weight[i + 1]),
                           v |-> Add(v, value[i + 1])],
                 label |-> Format(<<"Pick item ", Str(PyInt(i))>>)]
    IN  IF PickAllowed(w, weight[i + 1]) THEN <<skip, pick>> ELSE <<skip>>

\* dfs(i, w, v, parent_id, edge_label) of run_knapsack_dfs: the innermost call
\* runs on to its next recursive call or to its return. A call that has not
\* started runs steps 1-5 and, unless it is terminal, calls branch 1; a call
\* whose k-th recursive call returned calls branch k + 1 or returns.
knapsack_dfs(st, weight, value, base) ==
    LET top == Top(st)
        i == top.args.i
        w == top.args.w
        v == top.args.v
    IN  IF top.at = 0
        THEN LET entered == Enter(st, top.args)
                 base_label == KnapsackBaseLabel(i, w, v)
             IN  IF base_label = ValueError
                 THEN Raise(entered, ValueError)
                 ELSE LET s1 == RecordNode(entered, base_label, top.parent_id,
                                           top.edge_label)
                          unique_node_id == LastId(s1)
                      IN  IF i >= Len(weight)
                          THEN Return(s1)
                          ELSE LET br == KnapsackBranches(weight, value, i, w, v)
                               IN  Call(Suspend(s1, unique_node_id, 1), base, br[1].args,
                                        unique_node_id, br[1].label)
        ELSE LET br == KnapsackBranches(weight, value, i, w, v)
             IN  IF top.at < Len(br)
                 THEN Call(Suspend(st, top.unique_node_id, top.at + 1), base,
                           br[top.at + 1].args, top.unique_node_id, br[top.at + 1].label)
                 ELSE Return(st)

\* create_tree_graph_from_trace of 01knapsack.py: a node per trace entry, a
\* labelled edge parent -> child per parent_map entry (nx.DiGraph keeps one
\* edge per ordered pair).
TreeGraph(tr, pm) ==
    [nodes |-> {tr[k] : k \in 1 .. Len(tr)},
     edges |-> [e \in {<<pm[c][1], c>> : c \in DOMAIN pm} |-> pm[e[2]][2]]]

EmptyGraph == [nodes |-> {}, edges |-> EmptyMap]

---------------------------------------------------------------------------
(* 01knapsackdp.py: build_knapsack_dp_table *)

\* The list index an int denotes, for an int within 0 .. last.
Index(a, last) == CHOOSE j \in 0 .. last : PyInt(j) = a

\* Variant: the picked value is taken whenever the item fits, without the
\* comparison against the skipped value.
DpCell_AlwaysPick(prev, w, wt, val, cap) ==
    IF Ge(PyInt(w), wt) THEN Add(prev[Index(Sub(PyInt(w), wt), cap)], val) ELSE prev[w]

\* dp[i][w] as computed by the body of the inner loop from row i-1 (prev).
\* Read only where the index w - wt is inside the row.
DpCell(prev, w, wt, val, cap) ==
    IF Ge(PyInt(w), wt)
    THEN LET pick_val == Add(prev[Index(Sub(PyInt(w), wt), cap)], val)
         IN  IF Gt(pick_val, prev[w]) THEN pick_val ELSE prev[w]
    ELSE prev[w]

\* dp[i-1][w - weight[i-1]] raises IndexError when the index is past the end of
\* the row (the index is never negative: it is read only when w >= weight[i-1]).
RowRaises(wt, cap) ==
    \E w \in 0 .. cap : Ge(PyInt(w), wt) /\ Gt(Sub(PyInt(w), wt), PyInt(cap))

RECURSIVE DpRows(_, _, _, _)
\* Rows 0 .. i of the table, or the error the loop raised on the way.
DpRows(weight, value, cap, i) ==
    IF i = 0
    THEN [status |-> "ok", dp |-> (0 :> [w \in 0 .. cap |-> PyInt(0)])]
    ELSE LET before == DpRows(weight, value, cap, i - 1)
         IN  IF before.status # "ok"
             THEN before
             ELSE IF RowRaises(weight[i], cap)
             THEN [status |-> IndexError, dp |-> <<>>]
             ELSE [status |-> "ok",
                   dp |-> (i :> [w \in 0 .. cap |->
                                   DpCell(before.dp[i - 1], w, weight[i], value[i], cap)])
                          @@ before.dp]

\* build_knapsack_dp_table(weight, value, W), W the number of the capacity
\* input: "return dp" when the status is "ok".
build_knapsack_dp_table(weight, value, cap) ==
    DpRows(weight, value, cap, Len(weight))

---------------------------------------------------------------------------
(* 01knapsackdp.py: build_dp_graph *)

\* The (i, w) pairs of "for i in range(rows): for w in range(cols)", in order.
LoopPairs(rows, cols) ==
    [k \in 1 .. rows * cols |-> <<(k - 1) \div cols, (k - 1) % cols>>]

\* get_node_id: the id of (i, w), created from node_counter on first use.
get_node_id(node_id_map, i, w) ==
    IF <<i, w>> \in DOMAIN node_id_map
    THEN node_id_map
    ELSE (<<i, w>> :> Cardinality(DOMAIN node_id_map)) @@ node_id_map

\* node_label = f"dp({i},{w})={dp[i][w]}"
DpNodeLabel(table, i, w) ==
    Format(<<"dp(", Str(PyInt(i)), ",", Str(PyInt(w)), ")=", Str(table[i][w])>>)

RECURSIVE AddNodes(_, _, _, _)
\* Step 1: a labelled node for every table cell, up to the first label that
\* cannot be formatted.
AddNodes(g, table, pairs, k) ==
    IF k > Len(pairs)
    THEN g
    ELSE LET i == pairs[k][1]
             w == pairs[k][2]
             node_label == DpNodeLabel(table, i, w)
             ids == get_node_id(g.node_id_map, i, w)
         IN  IF node_label = ValueError
             THEN [g EXCEPT !.status = ValueError]
             ELSE AddNodes([g EXCEPT !.node_id_map = ids,
                                     !.nodes = (ids[<<i, w>>] :> node_label) @@ @],
                           table, pairs, k + 1)

\* G.add_edge(u, v, label=l) on an nx.DiGraph: one edge per ordered pair; adding
\* an existing edge again updates its label.
add_edge(edges, u, v, l) == (<<u, v>> :> l) @@ edges

\* The child the pick edge is wired to: get_node_id(i+1, w).
PickChild(i, w, wt) == <<i + 1, w>>

\* Step 2, one (i, w): the skip check then the pick check.
AddCellEdges(edges, ids, table, weight, value, i, w) ==
    LET cur_val == table[i][w]
        nid_parent == ids[<<i, w>>]
        last == Cardinality(DOMAIN table[0]) - 1
        e1 == IF table[i + 1][w] = cur_val
              THEN add_edge(edges, nid_parent, ids[<<i + 1, w>>],
                            "skip item " \o Str(PyInt(i)))
              ELSE edges
    IN  IF Ge(PyInt(w), weight[i + 1])
        THEN LET pick_val == Add(table[i][Index(Sub(PyInt(w), weight[i + 1]), last)],
                                 value[i + 1])
             IN  IF table[i + 1][w] = pick_val
                 THEN add_edge(e1, nid_parent, ids[PickChild(i, w, weight[i + 1])],
                               "pick item " \o Str(PyInt(i)))
                 ELSE e1
        ELSE e1

RECURSIVE AddEdges(_, _, _, _, _, _, _)
AddEdges(edges, ids, table, weight, value, pairs, k) ==
    IF k > Len(pairs)
    THEN edges
    ELSE AddEdges(AddCellEdges(edges, ids, table, weight, value, pairs[k][1], pairs[k][2]),
                  ids, table, weight, value, pairs, k + 1)

\* build_dp_graph(dp, weight, value): "return G" when the status is "ok".
build_dp_graph(table, weight, value) ==
    LET n == Cardinality(DOMAIN table) - 1
        cap == Cardinality(DOMAIN table[0]) - 1
        g1 == AddNodes([status |-> "ok", node_id_map |-> EmptyMap, nodes |-> EmptyMap],
                       table, LoopPairs(n + 1, cap + 1), 1)
    IN  IF g1.status # "ok"
        THEN [status |-> g1.status, node_id_map |-> EmptyMap, nodes |-> EmptyMap,
              edges |-> EmptyMap]
        ELSE [status |-> "ok",
              node_id_map |-> g1.node_id_map,
              nodes |-> g1.nodes,
              edges |-> AddEdges(EmptyMap, g1.node_id_map, table, weight, value,
                                 LoopPairs(n, cap + 1), 1)]

---------------------------------------------------------------------------
(* FindTargetSumWays.py: run_target_sum_dfs *)

\* base_label = f"dfs({i}, {cur_sum})"
TargetSumBaseLabel(i, cur_sum) ==
    Format(<<"dfs(", Str(PyInt(i)), ", ", Str(cur_sum), ")">>)

\* Variant: the second branch adds instead of subtracting.
TargetSumBranches_BothAdd(nums, i, cur_sum) ==
    <<[args |-> [i |-> i + 1, cur_sum |-> Add(cur_sum, nums[i + 1])],
       label |-> Format(<<"+", Str(nums[i + 1])>>)],
      [args |-> [i |-> i + 1, cur_sum |-> Add(cur_sum, nums[i + 1])],
       label |-> Format(<<"-", Str(nums[i + 1])>>)]>>

\* Step 5 of dfs: the two recursive calls, in call order, each with its
\* arguments i + 1, cur_sum +/- nums[i] and its edge label f"+{nums[i]}" resp.
\* f"-{nums[i]}".
TargetSumBranches(nums, i, cur_sum) ==
    <<[args |-> [i |-> i + 1, cur_sum |-> Add(cur_sum, nums[i + 1])],
       label |-> Format(<<"+", Str(nums[i + 1])>>)],
      [args |-> [i |-> i + 1, cur_sum |-> Sub(cur_sum, nums[i + 1])],
       label |-> Format(<<"-", Str(nums[i + 1])>>)]>>

\* Step 4 of dfs, at a leaf: "if cur_sum == target".
IsGoal(cur_sum, tgt) == cur_sum = tgt

\* dfs(i, cur_sum, parent_id, edge_label) of run_target_sum_dfs: the innermost
\* call runs on to its next recursive call or to its return.
target_sum_dfs(st, nums, tgt, base) ==
    LET top == Top(st)
        i == top.args.i
        cur_sum == top.args.cur_sum
    IN  IF top.at = 0
        THEN LET entered == Enter(st, top.args)
                 base_label == TargetSumBaseLabel(i, cur_sum)
             IN  IF base_label = ValueError
                 THEN Raise(entered, ValueError)
                 ELSE LET s1 == RecordNode(entered, base_label, top.parent_id,
                                           top.edge_label)
                          unique_node_id == LastId(s1)
                      IN  IF i = Len(nums)
                          THEN IF IsGoal(cur_sum, tgt)
                               THEN Return([s1 EXCEPT
                                               !.valid_leaves = Append(@, unique_node_id),
                                               !.ways_count = @ + 1])
                               ELSE Return(s1)
                          ELSE LET br == TargetSumBranches(nums, i, cur_sum)
                               IN  Call(Suspend(s1, unique_node_id, 1), base, br[1].args,
                                        unique_node_id, br[1].label)
        ELSE LET br == TargetSumBranches(nums, i, cur_sum)
             IN  IF top.at < Len(br)
                 THEN Call(Suspend(st, top.unique_node_id, top.at + 1), base,
                           br[top.at + 1].args, top.unique_node_id, br[top.at + 1].label)
                 ELSE Return(st)

---------------------------------------------------------------------------
(* Running the dfs calls to the end *)

\* The run is over: an exception left it, or dfs(0, ...) returned.
Done(st) == st.status # "ok" \/ st.stack = <<>>

\* One move of the innermost dfs call of the enumerator `prog`.
Step(prog, st) ==
    IF prog.enumerator = "run_knapsack_dfs"
    THEN knapsack_dfs(st, prog.weight, prog.value, prog.base)
    ELSE target_sum_dfs(st, prog.nums, prog.tgt, prog.base)

RECURSIVE Steps(_, _, _)
\* Up to n moves, fewer when the run is over before: the first half of them,
\* then the rest.
Steps(prog, st, n) ==
    IF Done(st) THEN st
    ELSE IF n = 1 THEN Step(prog, st)
    ELSE LET half == Steps(prog, st, n \div 2)
         IN  Steps(prog, half, n - n \div 2)

RECURSIVE Complete(_, _, _)
\* Moves until the run is over: n of them, then twice as many, and so on.
Complete(prog, st, n) ==
    IF Done(st) THEN st ELSE Complete(prog, Steps(prog, st, n), 2 * n)

\* run_knapsack_dfs(weight, value, W) called from frame number `caller`: its
\* own frame is caller + 1, that of dfs(0, W, 0) is caller + 2. The result is
\* "return trace, parent_map" when the status is "ok".
run_knapsack_dfs(weight, value, cap, caller) ==
    IF StackExhausted(caller + 1)
    THEN Raise(EmptyRun, RecursionError)
    ELSE LET prog == [enumerator |-> "run_knapsack_dfs", weight |-> weight,
                      value |-> value, base |-> caller + 1]
             root == [i |-> 0, w |-> cap, v |-> PyInt(0)]
         IN  Complete(prog, Call(EmptyRun, prog.base, root, None, ""), 1)

\* run_target_sum_dfs(nums, target) called from frame number `caller`. The
\* result is "return trace, parent_map, valid_leaves, ways_count" when the
\* status is "ok".
run_target_sum_dfs(nums, tgt, caller) ==
    IF StackExhausted(caller + 1)
    THEN Raise(EmptyRun, RecursionError)
    ELSE LET prog == [enumerator |-> "run_target_sum_dfs", nums |-> nums, tgt |-> tgt,
                      base |-> caller + 1]
             root == [i |-> 0, cur_sum |-> PyInt(0)]
         IN  Complete(prog, Call(EmptyRun, prog.base, root, None, ""), 1)

---------------------------------------------------------------------------
(* FindTargetSumWays.py: create_tree_graph_from_trace, part C *)

\* quick_parent[c] = p for every parent_map entry c -> (p, lbl)
QuickParent(pm) == [c \in DOMAIN pm |-> pm[c][1]]

RECURSIVE WalkToRoot_NoRoot(_, _, _)
\* Variant: the walk stops without adding the root.
WalkToRoot_NoRoot(highlighted, quick_parent, cur) ==
    IF cur \in DOMAIN quick_parent
    THEN WalkToRoot_NoRoot(highlighted \cup {cur}, quick_parent, quick_parent[cur])
    ELSE highlighted

RECURSIVE WalkToRoot(_, _, _)
\* "while cur in quick_parent: add(cur); cur = quick_parent[cur]" then add(cur)
WalkToRoot(highlighted, quick_parent, cur) ==
    IF cur \in DOMAIN quick_parent
    THEN WalkToRoot(highlighted \cup {cur}, quick_parent, quick_parent[cur])
    ELSE highlighted \cup {cur}

RECURSIVE HighlightFrom(_, _, _, _)
\* "for leaf_id in valid_leaves": leaves k .. len(valid_leaves)
HighlightFrom(highlighted, quick_parent, leaves, k) ==
    IF k > Len(leaves)
    THEN highlighted
    ELSE HighlightFrom(WalkToRoot(highlighted, quick_parent, leaves[k]),
                       quick_parent, leaves, k + 1)

HighlightedNodes(pm, leaves) == HighlightFrom({}, QuickParent(pm), leaves, 1)

---------------------------------------------------------------------------
(* Initial states: the inputs the user typed, nothing generated yet *)

Lists(range) == UNION {[1 .. n -> range] : n \in 0 .. MaxN}

Apps == {"01knapsack", "01knapsackdp", "FindTargetSumWays"}

NothingGenerated ==
    /\ pc = "idle"
    /\ weight_list = <<>>
    /\ value_list = <<>>
    /\ nums_list = <<>>
    /\ trace = <<>>
    /\ parent_map = EmptyMap
    /\ calls = <<>>
    /\ valid_leaves = <<>>
    /\ ways_count = 0
    /\ highlighted_nodes = {}
    /\ dp = <<>>
    /\ G = EmptyGraph

\* The default texts of the input fields.
DefaultWeights == Code(<<"2", ",", "3", ",", "4">>)
DefaultValues  == Code(<<"3", ",", "4", ",", "5">>)
DefaultNums    == Code(<<"1", ",", "1", ",", "1">>)

\* The text of n nines.
Nines(n) == [k \in 1 .. n |-> Ord["9"]]

\* The text of n ones, comma-separated.
OnesText(n) == [k \in 1 .. 2 * n - 1 |-> IF k % 2 = 1 THEN Ord["1"] ELSE Ord[","]]

\* The frame number of the script body: 1 when the interpreter runs the script
\* itself. A host that runs the body k levels deeper exhausts the stack on
\* lists k items shorter.
TopFrame == 1

\* Inputs typed beyond the drawn ranges: the scripts' default fields, texts
\* with blank tokens, spaces, signs, leading zeros and underscores, a token
\* that is no integer, lists of unequal length, digits and white space
\* outside ASCII, literals at and past the digit limit of int(), values whose
\* sum passes the digit limit of str().
KnapsackTyped ==
    {[weights |-> DefaultWeights, values |-> DefaultValues, cap |-> 5],
     [weights |-> Code(<<"1", ",", "2", ",", "3">>),
      values |-> Code(<<"2", ",", "2", ",", "4">>), cap |-> 3],
     [weights |-> Code(<<"1", ",", "1", ",", "1">>),
      values |-> Code(<<"1", ",", "1", ",", "1">>), cap |-> 3],
     [weights |-> Code(<<"1", ",", ",", "2">>), values |-> Code(<<",", "3", ",", "1">>),
      cap |-> 2],
     [weights |-> Code(<<"1", ",", " ", "2">>),
      values |-> Code(<<"+", "1", ",", "0", "2", " ">>), cap |-> 2],
     [weights |-> Code(<<"1", ",", " ", ",", "-", "0">>),
      values |-> Code(<<"1", "_", "0", ",", "\t", "3">>), cap |-> 1],
     [weights |-> Code(<<" ">>), values |-> Code(<<",">>), cap |-> 1],
     [weights |-> Code(<<"1", ",", "x">>), values |-> Code(<<"1", ",", "2">>),
      cap |-> 2],
     [weights |-> Code(<<"1", ",", "2">>), values |-> Code(<<"1", ".", "5", ",", "2">>),
      cap |-> 2],
     [weights |-> Code(<<"1", ",", "2">>),
      values |-> Code(<<"1", "_", "_", "0", ",", "2">>), cap |-> 2],
     [weights |-> Code(<<"1", " ", "2">>), values |-> Code(<<"1">>), cap |-> 2],
     [weights |-> Code(<<"1", ",", "2">>), values |-> Code(<<"1">>), cap |-> 2],
     [weights |-> Code(<<"1">>), values |-> Code(<<"1", ",", ",", "2">>), cap |-> 2],
     \* FULLWIDTH ONE , FORM FEED ARABIC-INDIC TWO  /  NBSP 1 EM SPACE , VT 2 NEL
     [weights |-> <<65297, 44, 12, 1634>>, values |-> <<160, 49, 8195, 44, 11, 50, 133>>,
      cap |-> 2],
     \* 1 ZERO WIDTH SPACE (no white space for strip)
     [weights |-> <<49, 8203>>, values |-> Code(<<"1">>), cap |-> 1],
     [weights |-> [k \in 1 .. MaxStrDigits |-> Ord["0"]], values |-> Code(<<"1">>),
      cap |-> 1],
     [weights |-> [k \in 1 .. MaxStrDigits + 1 |-> Ord["0"]], values |-> Code(<<"1">>),
      cap |-> 1],
     \* one value of MaxStrDigits digits: it can be written out
     [weights |-> Code(<<"1">>), values |-> Nines(MaxStrDigits), cap |-> 1],
     \* two such values: their sum cannot
     [weights |-> Code(<<"0", ",", "0">>),
      values |-> Nines(MaxStrDigits) \o Code(<<",">>) \o Nines(MaxStrDigits),
      cap |-> 0],
     \* a weight of MaxStrDigits digits: capacity minus weight can be written, the
     \* item is never picked
     [weights |-> Nines(MaxStrDigits), values |-> Code(<<"1">>), cap |-> 1],
     \* a negative weight of MaxStrDigits digits: the capacity left after the pick
     \* has one digit more
     [weights |-> Code(<<"-">>) \o Nines(MaxStrDigits), values |-> Code(<<"1">>),
      cap |-> 1]}

TargetSumTyped ==
    {[nums |-> DefaultNums, tgt |-> 2],
     [nums |-> DefaultNums, tgt |-> 1],
     [nums |-> Code(<<"1", ",", "2", ",", "3">>), tgt |-> 0],
     [nums |-> Code(<<"1", ",", ",", "1">>), tgt |-> 0],
     [nums |-> Code(<<" ", "1", ",", "+", "1", " ">>), tgt |-> 0],
     [nums |-> Code(<<"1", "2", ",", "0", "2", ",", "1", "_", "0">>), tgt |-> 0],
     [nums |-> Code(<<" ">>), tgt |-> 0],
     [nums |-> Code(<<"1", ",", "x">>), tgt |-> 1],
     [nums |-> Code(<<"-">>), tgt |-> 0],
     \* ARABIC-INDIC ONE , IDEOGRAPHIC SPACE MATHEMATICAL DOUBLE-STRUCK ONE
     [nums |-> <<1633, 44, 12288, 120793>>, tgt |-> 0],
     \* MINUS SIGN 1 (no sign for int)
     [nums |-> <<8722, 49>>, tgt |-> 1],
     [nums |-> [k \in 1 .. MaxStrDigits + 1 |-> Ord["0"]], tgt |-> 0],
     \* one number of MaxStrDigits digits: both sums can be written out
     [nums |-> Nines(MaxStrDigits), tgt |-> 0],
     \* two such numbers: their sum cannot
     [nums |-> Nines(MaxStrDigits) \o Code(<<",">>) \o Nines(MaxStrDigits), tgt |-> 0]}

\* Lists typed into the two DFS scripts that are as long as the stack is deep:
\* the shortest list whose dfs calls do not fit, and a list of RecursionLimit
\* items, which fits under no host.
LongTyped == {OnesText(RecursionLimit - TopFrame - 2), OnesText(RecursionLimit)}

InitKnapsack ==
    /\ \/ /\ app \in {"01knapsack", "01knapsackdp"}
          /\ \/ /\ \E wl \in Lists(WeightRange), vl \in Lists(ValueRange) :
                      /\ Len(wl) = Len(vl)
                      /\ weight_str = Text(wl)
                      /\ value_str = Text(vl)
                /\ W \in CapRange
             \/ \E t \in KnapsackTyped :
                   /\ weight_str = t.weights
                   /\ value_str = t.values
                   /\ W = t.cap
       \/ /\ app = "01knapsack"
          /\ weight_str \in LongTyped
          /\ value_str = weight_str
          /\ W = 0
    /\ nums_str = DefaultNums
    /\ target = 2
    /\ NothingGenerated

InitTargetSum ==
    /\ app = "FindTargetSumWays"
    /\ \/ /\ \E nl \in Lists(NumRange) : nums_str = Text(nl)
          /\ target \in TargetRange
       \/ \E t \in TargetSumTyped :
             /\ nums_str = t.nums
             /\ target = t.tgt
       \/ /\ nums_str \in LongTyped
          /\ target = 0
    /\ weight_str = DefaultWeights
    /\ value_str = DefaultValues
    /\ W = 5
    /\ NothingGenerated

Init == InitKnapsack \/ InitTargetSum

---------------------------------------------------------------------------
(* 01knapsack.py: the "Generate Tree" button *)

\* The two list comprehensions inside "try", in order: weight_list is bound
\* when its text parses, value_list only when both do. A list that was not
\* bound keeps its value. wp and vp are the results of the two comprehensions.
ParseKnapsackInputs ==
    CHOOSE in \in {[ok |-> wp.ok /\ vp.ok,
                    weight_list |-> IF wp.ok THEN wp.list ELSE weight_list,
                    value_list  |-> IF wp.ok /\ vp.ok THEN vp.list ELSE value_list] :
                       wp \in {ParseIntList(weight_str)},
                       vp \in {ParseIntList(value_str)}} : TRUE

\* The handler runs in the script body, frame number TopFrame; an exception
\* out of run_knapsack_dfs is not caught and ends the script.
GenerateTree ==
    /\ app = "01knapsack"
    /\ pc = "idle"
    /\ \E in \in {ParseKnapsackInputs} :
           /\ weight_list' = in.weight_list
           /\ value_list' = in.value_list
           /\ IF ~in.ok
              THEN /\ pc' = "input_error"
                   /\ UNCHANGED <<trace, parent_map, calls, G>>
              ELSE IF Len(in.weight_list) # Len(in.value_list)
              THEN /\ pc' = "validation_error"
                   /\ UNCHANGED <<trace, parent_map, calls, G>>
              ELSE \E r \in {run_knapsack_dfs(in.weight_list, in.value_list, PyInt(W),
                                                TopFrame)} :
                       IF r.status # "ok"
                       THEN /\ pc' = r.status
                            /\ UNCHANGED <<trace, parent_map, calls, G>>
                       ELSE /\ pc' = "rendered"
                            /\ trace' = r.trace
                            /\ parent_map' = r.parent_map
                            /\ calls' = r.calls
                            /\ G' = TreeGraph(r.trace, r.parent_map)
    /\ UNCHANGED <<app, weight_str, value_str, W, nums_str, target, nums_list,
                   valid_leaves, ways_count, highlighted_nodes, dp>>

---------------------------------------------------------------------------
(* 01knapsackdp.py: main, the "Generate DP Graph" button *)

\* An exception out of build_knapsack_dp_table or build_dp_graph is not caught
\* and ends the script; dp is bound once the table is returned.
GenerateDPGraph ==
    /\ app = "01knapsackdp"
    /\ pc = "idle"
    /\ \E in \in {ParseKnapsackInputs} :
           /\ weight_list' = in.weight_list
           /\ value_list' = in.value_list
           /\ IF ~in.ok
              THEN /\ pc' = "input_error"
                   /\ UNCHANGED <<dp, G>>
              ELSE IF Len(in.weight_list) # Len(in.value_list)
              THEN /\ pc' = "validation_error"
                   /\ UNCHANGED <<dp, G>>
              ELSE \E t \in {build_knapsack_dp_table(in.weight_list, in.value_list, W)} :
                       IF t.status # "ok"
                       THEN /\ pc' = t.status
                            /\ UNCHANGED <<dp, G>>
                       ELSE \E g \in {build_dp_graph(t.dp, in.weight_list, in.value_list)} :
                                /\ dp' = t.dp
                                /\ IF g.status # "ok"
                                   THEN /\ pc' = g.status
                                        /\ UNCHANGED G
                                   ELSE /\ pc' = "rendered"
                                        /\ G' = [node_id_map |-> g.node_id_map,
                                                 nodes |-> g.nodes, edges |-> g.edges]
    /\ UNCHANGED <<app, weight_str, value_str, W, nums_str, target, nums_list,
                   trace, parent_map, calls, valid_leaves, ways_count, highlighted_nodes>>

---------------------------------------------------------------------------
(* FindTargetSumWays.py: the "Generate DFS Tree" button *)

\* An exception out of run_target_sum_dfs is not caught and ends the script.
GenerateDFSTree ==
    /\ app = "FindTargetSumWays"
    /\ pc = "idle"
    /\ \E np \in {ParseIntList(nums_str)} :
           /\ nums_list' = IF np.ok THEN np.list ELSE nums_list
           /\ IF ~np.ok
              THEN /\ pc' = "input_error"
                   /\ UNCHANGED <<trace, parent_map, calls, valid_leaves, ways_count,
                                  highlighted_nodes, G>>
              ELSE \E r \in {run_target_sum_dfs(np.list, PyInt(target), TopFrame)} :
                       IF r.status # "ok"
                       THEN /\ pc' = r.status
                            /\ UNCHANGED <<trace, parent_map, calls, valid_leaves,
                                           ways_count, highlighted_nodes, G>>
                       ELSE /\ pc' = "rendered"
                            /\ trace' = r.trace
                            /\ parent_map' = r.parent_map
                            /\ calls' = r.calls
                            /\ valid_leaves' = r.valid_leaves
                            /\ ways_count' = r.ways_count
                            /\ G' = TreeGraph(r.trace, r.parent_map)
                            /\ highlighted_nodes' =
                                  HighlightedNodes(r.parent_map, r.valid_leaves)
    /\ UNCHANGED <<app, weight_str, value_str, W, nums_str, target, weight_list,
                   value_list, dp>>

Next == GenerateTree \/ GenerateDPGraph \/ GenerateDFSTree

Spec == Init /\ [][Next]_vars

---------------------------------------------------------------------------
(* What the properties below talk about *)

\* The handler got past both boundary checks: every token an integer, equal
\* lengths.
KnapsackValidated == pc \notin {"idle", "input_error", "validation_error"}

TargetSumValidated == pc \notin {"idle", "input_error"}

\* The enumerator returned and its result was rendered.
TreeDone == app = "01knapsack" /\ pc = "rendered"
DpDone   == app = "01knapsackdp" /\ pc = "rendered"
TsDone   == app = "FindTargetSumWays" /\ pc = "rendered"

\* build_knapsack_dp_table returned its table.
TableBuilt == app = "01knapsackdp" /\ dp # <<>>

RECURSIVE SumOver(_, _)
\* Sum of f[k] over the finite set S of indices.
SumOver(f, S) ==
    IF S = {} THEN PyInt(0)
    ELSE LET k == CHOOSE x \in S : TRUE IN Add(f[k], SumOver(f, S \ {k}))

MaxOf(S) == CHOOSE m \in S : \A x \in S : Ge(m, x)

\* Brute force: the best total value of a set of items whose weight fits.
BestSubsetValue(weight, value, cap) ==
    MaxOf({SumOver(value, S) : S \in {T \in SUBSET (1 .. Len(weight)) :
                                         Ge(PyInt(cap), SumOver(weight, T))}})

\* The largest accumulated value v among the leaf calls dp(n, w, v).
MaxLeafValue(cs, n) == MaxOf({cs[k].v : k \in {j \in 1 .. Len(cs) : cs[j].i = n}})

\* Trace entry k is the id of the call recorded with it.
KnapsackIdOfCall(k) ==
    \E c \in 1 .. Len(trace) :
        trace[k] = UniqueNodeId(KnapsackBaseLabel(calls[k].i, calls[k].w, calls[k].v), c)

TargetSumIdOfCall(k) ==
    \E c \in 1 .. Len(trace) :
        trace[k] = UniqueNodeId(TargetSumBaseLabel(calls[k].i, calls[k].cur_sum), c)

RECURSIVE OnChain(_, _)
\* id lies on the parent chain from node d up to the root (d included).
OnChain(id, d) ==
    \/ id = d
    \/ d \in DOMAIN parent_map /\ OnChain(id, parent_map[d][1])

\* No weight is negative.
NoNegativeWeight == \A k \in 1 .. Len(weight_list) : ~weight_list[k].neg

\* Every weight is at least 1.
AllWeightsPositive == \A k \in 1 .. Len(weight_list) : Gt(weight_list[k], PyInt(0))

---------------------------------------------------------------------------
(* C1: for non-negative weights and capacity W >= 0, the last cell         *)
(* dp[n][W] of the table build_knapsack_dp_table returns is the best value *)
(* of any set of items whose total weight is at most W, and it is the      *)
(* largest leaf value v of the trace run_knapsack_dfs returns on the same  *)
(* input, whenever both return.                                            *)
C1_OptimalValue ==
    LET n == Len(weight_list)
    IN  (/\ app \in {"01knapsack", "01knapsackdp"}
         /\ KnapsackValidated
         /\ W >= 0
         /\ NoNegativeWeight)
        => /\ TableBuilt =>
                /\ dp[n][W] = BestSubsetValue(weight_list, value_list, W)
                /\ LET r == run_knapsack_dfs(weight_list, value_list, PyInt(W), TopFrame)
                   IN  r.status = "ok" => dp[n][W] = MaxLeafValue(r.calls, n)
           /\ TreeDone =>
                /\ \A k \in 1 .. Len(trace) : KnapsackIdOfCall(k)
                /\ MaxLeafValue(calls, n) = BestSubsetValue(weight_list, value_list, W)
                /\ LET t == build_knapsack_dp_table(weight_list, value_list, W)
                   IN  t.status = "ok" => MaxLeafValue(calls, n) = t.dp[n][W]

\* Scenario 1 of the specification: weights 2,3,4, values 3,4,5, W = 5 gives 7,
\* in the table and among the leaves of the tree.
C1_Witness ==
    /\ DpDone
    /\ weight_list = <<PyInt(2), PyInt(3), PyInt(4)>>
    /\ value_list = <<PyInt(3), PyInt(4), PyInt(5)>>
    /\ W = 5
    /\ dp[3][5] = PyInt(7)
    /\ LET r == run_knapsack_dfs(weight_list, value_list, PyInt(W), TopFrame)
       IN  r.status = "ok" /\ MaxLeafValue(r.calls, 3) = PyInt(7)

(* C2: the ways_count run_target_sum_dfs returns is the number of sign     *)
(* assignments over nums whose signed sum is the target, and it is the     *)
(* number of recorded goal leaves.                                         *)
C2_WaysCount ==
    TsDone =>
        LET n == Len(nums_list)
            signed(sg) == [k \in 1 .. n |-> IF sg[k] = 1 THEN nums_list[k]
                                             ELSE Neg(nums_list[k])]
        IN  /\ ways_count = Cardinality({sg \in [1 .. n -> {1, -1}] :
                                            SumOver(signed(sg), 1 .. n) = PyInt(target)})
            /\ ways_count = Len(valid_leaves)
            /\ n = 0 => ways_count = IF target = 0 THEN 1 ELSE 0

C2_Witness ==
    /\ TsDone
    /\ nums_list = <<PyInt(1), PyInt(1), PyInt(1)>> /\ target = 1
    /\ ways_count = 3

(* C3: the highlighted set is exactly the set of nodes on the parent chain *)
(* of some goal leaf, root included; it is empty when there is no goal.    *)
C3_HighlightedExactlyGoalPaths ==
    TsDone =>
        /\ highlighted_nodes =
              {trace[k] : k \in {j \in 1 .. Len(trace) :
                  \E l \in 1 .. Len(valid_leaves) : OnChain(trace[j], valid_leaves[l])}}
        /\ valid_leaves = <<>> => highlighted_nodes = {}
        /\ valid_leaves # <<>> => trace[1] \in highlighted_nodes

C3_Witness ==
    /\ TsDone
    /\ Len(valid_leaves) >= 2
    /\ Cardinality(highlighted_nodes) >= 4
    /\ \E k \in 1 .. Len(trace) : trace[k] \notin highlighted_nodes

\* "pick item i" / "skip item i" edges of the DP graph leaving cell (i, w).
DpEdgesFrom(i, w, l) ==
    {e \in DOMAIN G.edges : e[1] = G.node_id_map[<<i, w>>] /\ G.edges[e] = l}

DpSkipCondition(i, w) == dp[i + 1][w] = dp[i][w]

DpPickCondition(i, w) ==
    /\ Ge(PyInt(w), weight_list[i + 1])
    /\ dp[i + 1][w] = Add(dp[i][Index(Sub(PyInt(w), weight_list[i + 1]), W)],
                          value_list[i + 1])

(* C4: a "pick item i" edge leaves (i, w) iff w >= weight[i] and           *)
(* T[i+1][w] = T[i][w - weight[i]] + value[i], and it then ends at node    *)
(* (i+1, w - weight[i]).                                                   *)
C4_PickEdge ==
    DpDone =>
        \A i \in 0 .. Len(weight_list) - 1, w \in 0 .. W :
            LET picks == DpEdgesFrom(i, w, "pick item " \o Str(PyInt(i)))
            IN  /\ picks # {} <=> DpPickCondition(i, w)
                /\ \A e \in picks :
                      e[2] = G.node_id_map[<<i + 1,
                                  Index(Sub(PyInt(w), weight_list[i + 1]), W)>>]

(* C5: where both the skip and the pick condition hold at (i, w), the      *)
(* graph has a "skip item i" edge and a "pick item i" edge leaving (i, w). *)
C5_BothEdgesCoexist ==
    DpDone =>
        \A i \in 0 .. Len(weight_list) - 1, w \in 0 .. W :
            (DpSkipCondition(i, w) /\ DpPickCondition(i, w))
            => /\ DpEdgesFrom(i, w, "skip item " \o Str(PyInt(i))) # {}
               /\ DpEdgesFrom(i, w, "pick item " \o Str(PyInt(i))) # {}

(* C6: whenever run_knapsack_dfs or run_target_sum_dfs returns, the trace  *)
(* ids are pairwise distinct, the root has no parent entry, every other    *)
(* entry has one whose parent occurs earlier, and the graph is a tree with *)
(* len(trace) - 1 edges, one into every non-root node.                     *)
C6_TraceIsTree ==
    (TreeDone \/ TsDone) =>
        /\ \A j, k \in 1 .. Len(trace) : trace[j] = trace[k] => j = k
        /\ trace[1] \notin DOMAIN parent_map
        /\ DOMAIN parent_map = {trace[k] : k \in 2 .. Len(trace)}
        /\ \A k \in 2 .. Len(trace) :
              \E j \in 1 .. k - 1 : trace[j] = parent_map[trace[k]][1]
        /\ G.nodes = {trace[k] : k \in 1 .. Len(trace)}
        /\ Cardinality(DOMAIN G.edges) = Len(trace) - 1
        /\ \A k \in 2 .. Len(trace) :
              Cardinality({e \in DOMAIN G.edges : e[2] = trace[k]}) = 1
        /\ \A e \in DOMAIN G.edges : e[2] # trace[1]

\* The same state is reached along two different paths, in the script that
\* ran and, on the text of the other script's input fields, in the other
\* enumerator.
C6_Witness ==
    /\ TreeDone
    /\ \E j, k \in 1 .. Len(calls) :
          /\ j # k
          /\ calls[j] = calls[k]
          /\ parent_map[trace[j]][1] # parent_map[trace[k]][1]
    /\ LET r == run_target_sum_dfs(ParseIntList(nums_str).list, PyInt(target), TopFrame)
       IN  /\ r.status = "ok"
           /\ \E j, k \in 1 .. Len(r.calls) :
                 /\ j # k
                 /\ r.calls[j] = r.calls[k]
                 /\ r.trace[j] # r.trace[k]
                 /\ r.parent_map[r.trace[j]][1] # r.parent_map[r.trace[k]][1]

PickLabels(n) == {"Pick item " \o Str(PyInt(i)) : i \in 0 .. n - 1}
DpPickLabels(n) == {"pick item " \o Str(PyInt(i)) : i \in 0 .. n - 1}

NoPickEdges ==
    /\ TreeDone => \A c \in DOMAIN parent_map :
                       parent_map[c][2] \notin PickLabels(Len(weight_list))
    /\ DpDone => \A e \in DOMAIN G.edges :
                       G.edges[e] \notin DpPickLabels(Len(weight_list))

(* C7 as stated: with capacity W = 0 no pick edge exists in the parent_map *)
(* run_knapsack_dfs returns nor in the graph build_dp_graph returns, for   *)
(* every list of weights and values. Stated here for the lists without a   *)
(* negative weight, which the claim covers.                                *)
C7_NoPickAtZeroCapacity ==
    (/\ app \in {"01knapsack", "01knapsackdp"}
     /\ KnapsackValidated
     /\ W = 0
     /\ NoNegativeWeight)
    => NoPickEdges

(* C7 as amended: with capacity W = 0 and every weight strictly positive,  *)
(* neither the parent_map run_knapsack_dfs returns nor the graph           *)
(* build_dp_graph returns has a pick edge.                                 *)
C7_NoPickAtZeroCapacityPositiveWeights ==
    (/\ app \in {"01knapsack", "01knapsackdp"}
     /\ KnapsackValidated
     /\ W = 0
     /\ AllWeightsPositive)
    => NoPickEdges

\* Two items of positive weight at capacity 0: the tree is the chain of the
\* two skips; the DP graph of the same input has its two skip edges only.
C7_Witness ==
    /\ TreeDone
    /\ W = 0
    /\ Len(weight_list) = 2
    /\ AllWeightsPositive
    /\ Len(trace) = 3
    /\ LET t == build_knapsack_dp_table(weight_list, value_list, W)
           g == build_dp_graph(t.dp, weight_list, value_list)
       IN  /\ t.status = "ok" /\ g.status = "ok"
           /\ Cardinality(DOMAIN g.edges) = 2

(* C8: on every validated input (integer tokens, equal lengths, any sign   *)
(* of weights, values and capacity) the handler ends with a result and     *)
(* never with an error.                                                    *)
C8_TotalOnValidatedInput ==
    /\ (app \in {"01knapsack", "01knapsackdp"} /\ KnapsackValidated)
         => pc = "rendered"
    /\ (app = "FindTargetSumWays" /\ TargetSumValidated)
         => pc = "rendered"

\* No visited non-terminal node has its pick blocked by the capacity guard.
NoPickBlocked ==
    \A k \in 1 .. Len(calls) :
        calls[k].i < Len(weight_list) => Ge(calls[k].w, weight_list[calls[k].i + 1])

(* C9: when run_knapsack_dfs returns, the trace has one node per dfs call  *)
(* made, at most 2^(n+1) - 1 of them, exactly that many when no pick is    *)
(* blocked, and exactly one (with an empty parent_map) when there are no   *)
(* items.                                                                  *)
C9_NodeCount ==
    TreeDone =>
        LET n == Len(weight_list)
        IN  /\ Len(trace) = Len(calls)
            /\ Len(trace) <= 2 ^ (n + 1) - 1
            /\ NoPickBlocked => Len(trace) = 2 ^ (n + 1) - 1
            /\ n = 0 => Len(trace) = 1 /\ parent_map = EmptyMap

C9_Witness ==
    /\ TreeDone
    /\ Len(weight_list) = 2
    /\ NoPickBlocked
    /\ Len(trace) = 7
    /\ \E k \in 1 .. Len(calls) : calls[k].i < 2 /\ calls[k].w = weight_list[calls[k].i + 1]

\* In the run r every node precedes its children, and the subtree of a first
\* child is visited before the second child.
RECURSIVE ChainHas(_, _, _)
ChainHas(pm, id, d) ==
    \/ id = d
    \/ d \in DOMAIN pm /\ ChainHas(pm, id, pm[d][1])

ChildrenOf(r, p) ==
    {k \in 1 .. Len(r.trace) : r.trace[k] \in DOMAIN r.parent_map
                               /\ r.parent_map[r.trace[k]][1] = r.trace[p]}

PreOrder(r) ==
    /\ \A k \in 2 .. Len(r.trace) :
          \E j \in 1 .. k - 1 : r.trace[j] = r.parent_map[r.trace[k]][1]
    /\ \A p \in 1 .. Len(r.trace) :
          \A c1, c2 \in ChildrenOf(r, p) :
              c1 < c2 => \A d \in 1 .. Len(r.trace) :
                             ChainHas(r.parent_map, r.trace[c1], r.trace[d]) => d < c2

\* The edge labels of the children of the node at position p, in trace order.
ChildLabels(r, p) ==
    LET cs == ChildrenOf(r, p)
        nth(k) == CHOOSE c \in cs : Cardinality({x \in cs : x < c}) = k - 1
    IN  [k \in 1 .. Cardinality(cs) |-> r.parent_map[r.trace[nth(k)]][2]]

\* The run whose result the state holds.
ThisRun == [trace |-> trace, parent_map |-> parent_map, calls |-> calls]

\* run_knapsack_dfs returned r on weight: pre-order, children Skip then Pick,
\* the pick child iff w >= weight[i].
KnapsackOrder(r, weight) ==
    /\ PreOrder(r)
    /\ \A p \in 1 .. Len(r.trace) :
          LET i == r.calls[p].i
              skip == "Skip item " \o Str(PyInt(i))
              pick == "Pick item " \o Str(PyInt(i))
          IN  ChildLabels(r, p) =
                  IF i >= Len(weight) THEN <<>>
                  ELSE IF Ge(r.calls[p].w, weight[i + 1]) THEN <<skip, pick>>
                  ELSE <<skip>>

\* run_target_sum_dfs returned r on nums: pre-order, children +nums[i] then
\* -nums[i], both always.
TargetSumOrder(r, nums) ==
    /\ PreOrder(r)
    /\ \A p \in 1 .. Len(r.trace) :
          LET i == r.calls[p].i
          IN  ChildLabels(r, p) =
                  IF i >= Len(nums) THEN <<>>
                  ELSE <<"+" \o Str(nums[i + 1]), "-" \o Str(nums[i + 1])>>

(* C10: whenever they return, both DFS enumerators have visited in         *)
(* pre-order with a fixed child order: knapsack "Skip item i" then "Pick   *)
(* item i" (the pick child exists iff w >= weight[i]), target sum          *)
(* "+nums[i]" then "-nums[i]" (both always).                               *)
C10_PreOrderFixedChildOrder ==
    /\ TreeDone => KnapsackOrder(ThisRun, weight_list)
    /\ TsDone => TargetSumOrder(ThisRun, nums_list)

\* A node with two children whose first child has two children of its own:
\* in the knapsack tree of the script that ran and in the Target Sum tree of
\* the nums field.
C10_Witness ==
    /\ TreeDone
    /\ \E p \in 1 .. Len(trace) :
          /\ Cardinality(ChildrenOf(ThisRun, p)) = 2
          /\ \E c \in ChildrenOf(ThisRun, p) :
                /\ parent_map[trace[c]][2] = "Skip item " \o Str(PyInt(calls[p].i))
                /\ Cardinality(ChildrenOf(ThisRun, c)) = 2
    /\ LET r == run_target_sum_dfs(ParseIntList(nums_str).list, PyInt(target), TopFrame)
       IN  /\ r.status = "ok"
           /\ TargetSumOrder(r, ParseIntList(nums_str).list)
           /\ \E p \in 1 .. Len(r.trace) :
                 \E c \in ChildrenOf(r, p) :
                    /\ r.parent_map[r.trace[c]][2] = "+" \o Str(PyInt(1))
                    /\ Cardinality(ChildrenOf(r, c)) = 2

=============================================================================
